---- MODULE Spec2Model ----
(***************************************************************************)
(* Host-side protocol controller of the mobile wallet protocol:            *)
(* MobileWalletProtocolProvider.tsx.  The module-level state               *)
(* (prevRequestUUID, actionToResponseMap), the React state activeMessage   *)
(* and the secure storage of sessions are the variables.  Every operation  *)
(* of the provider is an async function: it is modelled as a call record   *)
(* whose pc names the awaited operation, with one action per stretch of    *)
(* code between two awaits.                                                *)
(***************************************************************************)
EXTENDS Integers, Sequences, FiniteSets, TLC

VARIABLES prevRequestUUID, actionToResponseMap, activeMessage, secureStorage,
          now, calls

vars == <<prevRequestUUID, actionToResponseMap, activeMessage, secureStorage,
          now, calls>>

----------------------------------------------------------------------------
(* Bounds *)

MaxUUID == 2            \* request ids 1..MaxUUID
MaxActions == 3         \* a request message carries 2..MaxActions actions
MaxClock == 1           \* days on the wall clock
MaxCalls == 2           \* slots for calls of the provider's operations

(* sessionExpiryDays, a prop of the provider *)
sessionExpiryDays == 1

UUIDs == 1..MaxUUID
NoUUID == 0
Dapps == {"X"}
NoDapp == "-"
CallIds == 1..MaxCalls

----------------------------------------------------------------------------
(* Actions and messages *)

NoAction == [id |-> -1, kind |-> "none", optional |-> FALSE, appId |-> NoDapp]

HandshakeActionOf(d) ==
    [id |-> 0, kind |-> "handshake", optional |-> FALSE, appId |-> d]

\* request actions 1, 2, 3, ...: odd ids are mandatory, even ids optional
RequestActionOf(i) ==
    [id |-> i, kind |-> "request", optional |-> (i % 2 = 0), appId |-> NoDapp]

ActionList(n) == [i \in 1..n |-> RequestActionOf(i)]

isHandshakeAction(a) == a.kind = "handshake"

\* null
NoMessage == [uuid |-> NoUUID, callbackUrl |-> NoDapp, actions |-> << >>]

ActionsOf(m) == {m.actions[i] : i \in 1..Len(m.actions)}

AllActions ==
    {HandshakeActionOf(d) : d \in Dapps} \cup {RequestActionOf(i) : i \in 1..MaxActions}

----------------------------------------------------------------------------
(* Raw requests (urls) and the codec *)

BadUrl == [uuid |-> NoUUID, content |-> "malformed", dapp |-> NoDapp, n |-> 0]

HandshakeUrls ==
    {[uuid |-> u, content |-> "handshake", dapp |-> d, n |-> 1] : u \in UUIDs, d \in Dapps}

RequestUrls ==
    {[uuid |-> u, content |-> "request", dapp |-> d, n |-> k] :
        u \in UUIDs, d \in Dapps, k \in 2..MaxActions}

\* an envelope that is neither a handshake nor a request
OtherUrls ==
    {[uuid |-> u, content |-> "other", dapp |-> d, n |-> 0] : u \in UUIDs, d \in Dapps}

Urls == {BadUrl} \cup HandshakeUrls \cup RequestUrls \cup OtherUrls

NoDecoded == [uuid |-> NoUUID, content |-> "null", callbackUrl |-> NoDapp]

decodeRequest(url) ==
    IF url.content = "malformed" THEN NoDecoded
    ELSE [uuid |-> url.uuid, content |-> url.content, callbackUrl |-> url.dapp]

\* the decrypted content of a request url: its list of actions
decryptRequest(url) == ActionList(url.n)

mapHandshakeToRequest(decoded) ==
    [uuid |-> decoded.uuid, callbackUrl |-> decoded.callbackUrl,
     actions |-> <<HandshakeActionOf(decoded.callbackUrl)>>]

mapDecryptedContentToRequest(actions, decoded) ==
    [uuid |-> decoded.uuid, callbackUrl |-> decoded.callbackUrl, actions |-> actions]

----------------------------------------------------------------------------
(* Sessions and the secure storage (a list of sessions) *)

NoSession == [dappId |-> NoDapp, createdAt |-> -1, handshake |-> NoUUID]

createSession(appId, action, message, t) ==
    [dappId |-> appId, createdAt |-> t, handshake |-> message.uuid]

\* the positions of the sessions of app d
SessionsOf(storage, d) == {i \in 1..Len(storage) : storage[i].dappId = d}

\* Array.prototype.find: the first position among hits
First(hits) == CHOOSE i \in hits : \A j \in hits : i <= j

\* the first session of app d, if any
FirstSession(storage, d) ==
    IF SessionsOf(storage, d) = {} THEN NoSession
    ELSE storage[First(SessionsOf(storage, d))]

getSession(storage, decoded) == FirstSession(storage, decoded.callbackUrl)

\* the storage without the sessions in gone
deleteSessions(storage, gone) ==
    LET F[i \in 0..Len(storage)] ==
            IF i = 0 THEN << >>
            ELSE IF storage[i] \in gone THEN F[i - 1] ELSE Append(F[i - 1], storage[i])
    IN F[Len(storage)]

addSession(storage, session) == Append(storage, session)

isSessionValid(session, days, t) == t - session.createdAt < days

----------------------------------------------------------------------------
(* The response map and the responses *)

EmptyMap == [i \in {} |-> "result"]

MapSet(m, id, v) ==
    [i \in (DOMAIN m) \cup {id} |-> IF i = id THEN v ELSE m[i]]

shouldRespondToClient(m, message) ==
    \A a \in ActionsOf(message) : a.id \in DOMAIN m

\* what sendResponse delivers to the callback of the message
ResponseOf(m, message) ==
    [type |-> "response", to |-> message.callbackUrl, uuid |-> message.uuid, body |-> m]

\* what sendError delivers
ErrorOf(to, uuid) ==
    [type |-> "error", to |-> to, uuid |-> uuid, body |-> EmptyMap]

----------------------------------------------------------------------------
(* Calls *)

NoPre ==
    [message |-> NoMessage, map |-> EmptyMap, storage |-> << >>, prev |-> NoUUID,
     now |-> 0]

IdleCall ==
    [op |-> "none", pc |-> "idle", ret |-> "-",
     url |-> BadUrl, action |-> NoAction, outcome |-> "-", appId |-> NoDapp,
     message |-> NoMessage, session |-> NoSession, existing |-> NoSession,
     pre |-> NoPre,
     sent |-> << >>, events |-> << >>, deleted |-> << >>, added |-> << >>,
     decrypts |-> 0, updates |-> 0,
     fresh |-> FALSE, overwritten |-> FALSE, discarded |-> NoMessage]

\* the state a call starts from
Snapshot ==
    [message |-> activeMessage, map |-> actionToResponseMap,
     storage |-> secureStorage, prev |-> prevRequestUUID, now |-> now]

\* a call that starts now: the callback closes over the activeMessage of the
\* last render
NewCall(op, pre) ==
    [IdleCall EXCEPT !.op = op, !.pc = "start", !.ret = "pending",
                     !.message = activeMessage, !.pre = pre]

Returns(call, value) == [call EXCEPT !.pc = "done", !.ret = value]

At(c, op, pc) == calls[c].op = op /\ calls[c].pc = pc

\* one caller at a time: a call starts when no other is in flight
CanStart(c) ==
    /\ \A d \in CallIds : calls[d].pc = "idle"
    /\ c = 1

\* callers that do not wait for each other: a call takes the first free slot
CanStartAnytime(c) ==
    /\ calls[c].pc = "idle"
    /\ \A d \in CallIds : d < c => calls[d].pc # "idle"

\* the calls once call c has passed the dedupe check with request id u: call c
\* is rec, and the calls that passed it earlier with another id have had the
\* marker overwritten
Marked(c, u, rec) ==
    [d \in CallIds |->
        IF d = c THEN [rec EXCEPT !.fresh = TRUE]
        ELSE IF calls[d].fresh /\ calls[d].url.uuid # u
        THEN [calls[d] EXCEPT !.overwritten = TRUE]
        ELSE calls[d]]

----------------------------------------------------------------------------
(* The provider *)

Init ==
    /\ prevRequestUUID = NoUUID
    /\ actionToResponseMap = EmptyMap
    /\ activeMessage = NoMessage
    /\ secureStorage = << >>
    /\ now = 0
    /\ calls = [c \in CallIds |-> IdleCall]

\* faulty variant: the message is replaced and the response map is kept
updateActiveMessageKeepMap(message) ==
    /\ actionToResponseMap' = actionToResponseMap
    /\ activeMessage' = message

updateActiveMessage(message) ==
    /\ actionToResponseMap' = EmptyMap
    /\ activeMessage' = message

\* faulty variant: no request is taken for a duplicate
IsDuplicateNever(prev, decoded) == FALSE

\* faulty variant: a replay cache, an id that a stored session was built from is
\* taken for a duplicate as well
IsDuplicateSeen(prev, decoded) ==
    \/ prev = decoded.uuid
    \/ \E i \in 1..Len(secureStorage) : secureStorage[i].handshake = decoded.uuid

\* the dedupe check of handleRequestUrl
IsDuplicate(prev, decoded) == prev = decoded.uuid

\* faulty variant: the marker is left as it was
NextMarkerKept(prev, decoded) == prev

\* faulty variant: the marker is set only by a handshake, which is installed
\* at once
NextMarkerOnInstall(prev, decoded) ==
    IF decoded.content = "handshake" THEN decoded.uuid ELSE prev

\* the dedupe marker after a request that passed the dedupe check
NextMarker(prev, decoded) == decoded.uuid

\* faulty variant: the age of the session is not checked
SessionRouteNoExpiry(session, days, t) ==
    IF session = NoSession THEN "sendErrorNotFound" ELSE "decryptRequest"

\* faulty variant: a request without a session is decrypted all the same
SessionRouteNoLookup(session, days, t) ==
    IF session # NoSession /\ ~isSessionValid(session, days, t) THEN "deleteSessions"
    ELSE "decryptRequest"

\* where handleRequestUrl goes with the session it looked up
SessionRoute(session, days, t) ==
    IF session = NoSession THEN "sendErrorNotFound"
    ELSE IF ~isSessionValid(session, days, t) THEN "deleteSessions"
    ELSE "decryptRequest"

\* faulty variant: the guard never fires
NoMessageFoundNever(message) == FALSE

\* the guard of the approve and reject operations
NoMessageFound(message) == message = NoMessage

\* faulty variant: approveAction responds after every outcome
ApproveRespondsAlways(map, message) == TRUE

\* whether approveAction sends the response now
ApproveResponds(map, message) == shouldRespondToClient(map, message)

\* faulty variant: a mandatory rejection waits for the other actions
RejectRespondsWhenComplete(action, map, message) == shouldRespondToClient(map, message)

\* whether rejectAction sends the response now
RejectResponds(action, map, message) ==
    IF action.optional THEN shouldRespondToClient(map, message) ELSE TRUE

\* faulty variant: the session of the app is never looked for
ExistingSessionNone(sessions, appId) == NoSession

\* the session approveHandshake replaces
ExistingSession(sessions, appId) == FirstSession(sessions, appId)

----------------------------------------------------------------------------
(* handleRequestUrl *)

HandleRequestUrlCall(c, url, pre) ==
    /\ calls' = [calls EXCEPT ![c] =
                    [NewCall("handleRequestUrl", pre) EXCEPT !.url = url, !.pc = "decodeRequest"]]
    /\ UNCHANGED <<prevRequestUUID, actionToResponseMap, activeMessage, secureStorage, now>>

HandleRequestUrl(c, url) == CanStart(c) /\ HandleRequestUrlCall(c, url, Snapshot)

HRU_decodeRequest(c) ==
    /\ At(c, "handleRequestUrl", "decodeRequest")
    /\ LET call == calls[c]
           decoded == decodeRequest(call.url)
       IN IF decoded = NoDecoded \/ IsDuplicate(prevRequestUUID, decoded)
          THEN /\ calls' = [calls EXCEPT ![c] = Returns(call, "false")]
               /\ UNCHANGED <<prevRequestUUID, actionToResponseMap, activeMessage>>
          ELSE /\ prevRequestUUID' = NextMarker(prevRequestUUID, decoded)
               /\ IF decoded.content = "handshake"
                  THEN /\ updateActiveMessage(mapHandshakeToRequest(decoded))
                       /\ calls' = Marked(c, decoded.uuid,
                                          Returns([call EXCEPT !.updates = @ + 1], "true"))
                  ELSE IF decoded.content = "request"
                  THEN /\ calls' = Marked(c, decoded.uuid, [call EXCEPT !.pc = "getSession"])
                       /\ UNCHANGED <<actionToResponseMap, activeMessage>>
                  ELSE /\ calls' = Marked(c, decoded.uuid, Returns(call, "false"))
                       /\ UNCHANGED <<actionToResponseMap, activeMessage>>
    /\ UNCHANGED <<secureStorage, now>>

HRU_getSession(c) ==
    /\ At(c, "handleRequestUrl", "getSession")
    /\ LET call == calls[c]
           decoded == decodeRequest(call.url)
           session == getSession(secureStorage, decoded)
           route == SessionRoute(session, sessionExpiryDays, now)
       IN IF route = "sendErrorNotFound"
          THEN calls' = [calls EXCEPT ![c] =
                            [call EXCEPT !.events = Append(@, "session_not_found"),
                                         !.pc = route]]
          ELSE IF route = "deleteSessions"
          THEN calls' = [calls EXCEPT ![c] =
                            [call EXCEPT !.session = session,
                                         !.events = Append(@, "session_expired"),
                                         !.pc = route]]
          ELSE calls' = [calls EXCEPT ![c] =
                            [call EXCEPT !.session = session, !.pc = route]]
    /\ UNCHANGED <<prevRequestUUID, actionToResponseMap, activeMessage, secureStorage, now>>

HRU_sendErrorNotFound(c) ==
    /\ At(c, "handleRequestUrl", "sendErrorNotFound")
    /\ LET call == calls[c]
           decoded == decodeRequest(call.url)
       IN calls' = [calls EXCEPT ![c] =
                       Returns([call EXCEPT !.sent =
                                   Append(@, ErrorOf(decoded.callbackUrl, decoded.uuid))],
                               "false")]
    /\ UNCHANGED <<prevRequestUUID, actionToResponseMap, activeMessage, secureStorage, now>>

HRU_deleteSessions(c) ==
    /\ At(c, "handleRequestUrl", "deleteSessions")
    /\ secureStorage' = deleteSessions(secureStorage, {calls[c].session})
    /\ calls' = [calls EXCEPT ![c] =
                    [calls[c] EXCEPT !.deleted = Append(@, calls[c].session),
                                     !.pc = "sendErrorExpired"]]
    /\ UNCHANGED <<prevRequestUUID, actionToResponseMap, activeMessage, now>>

HRU_sendErrorExpired(c) ==
    /\ At(c, "handleRequestUrl", "sendErrorExpired")
    /\ LET call == calls[c]
           decoded == decodeRequest(call.url)
       IN calls' = [calls EXCEPT ![c] =
                       Returns([call EXCEPT !.sent =
                                   Append(@, ErrorOf(decoded.callbackUrl, decoded.uuid))],
                               "false")]
    /\ UNCHANGED <<prevRequestUUID, actionToResponseMap, activeMessage, secureStorage, now>>

\* decryptRequest yields the request's actions or throws
HRU_decryptRequest(c) ==
    /\ At(c, "handleRequestUrl", "decryptRequest")
    /\ LET call == calls[c]
           decoded == decodeRequest(call.url)
       IN \/ /\ updateActiveMessage(
                    mapDecryptedContentToRequest(decryptRequest(call.url), decoded))
             /\ calls' = [calls EXCEPT ![c] =
                             Returns([call EXCEPT !.decrypts = @ + 1, !.updates = @ + 1],
                                     "true")]
          \/ /\ calls' = [calls EXCEPT ![c] =
                             Returns([call EXCEPT !.decrypts = @ + 1], "throw")]
             /\ UNCHANGED <<actionToResponseMap, activeMessage>>
    /\ UNCHANGED <<prevRequestUUID, secureStorage, now>>

----------------------------------------------------------------------------
(* fetchClientAppMetadata and isClientAppVerified *)

FindHandshake(message) ==
    LET hits == {i \in 1..Len(message.actions) : isHandshakeAction(message.actions[i])}
    IN IF hits = {} THEN NoAction ELSE message.actions[First(hits)]

FetchAppMetadataCall(c, pre) ==
    /\ LET call == NewCall("fetchAppMetadata", pre)
           handshake == FindHandshake(activeMessage)
       IN IF handshake = NoAction
          THEN calls' = [calls EXCEPT ![c] = Returns(call, "throw")]
          ELSE calls' = [calls EXCEPT ![c] =
                            [call EXCEPT !.action = handshake, !.pc = "fetchClientAppMetadata"]]
    /\ UNCHANGED <<prevRequestUUID, actionToResponseMap, activeMessage, secureStorage, now>>

FetchAppMetadata(c) == CanStart(c) /\ FetchAppMetadataCall(c, Snapshot)

FM_fetchClientAppMetadata(c) ==
    /\ At(c, "fetchAppMetadata", "fetchClientAppMetadata")
    /\ calls' = [calls EXCEPT ![c] = Returns(calls[c], "value")]
    /\ UNCHANGED <<prevRequestUUID, actionToResponseMap, activeMessage, secureStorage, now>>

IsAppVerifiedCall(c, pre) ==
    /\ LET call == NewCall("isAppVerified", pre)
           handshake == FindHandshake(activeMessage)
       IN IF handshake = NoAction
          THEN calls' = [calls EXCEPT ![c] = Returns(call, "throw")]
          ELSE calls' = [calls EXCEPT ![c] =
                            [call EXCEPT !.action = handshake, !.pc = "isClientAppVerified"]]
    /\ UNCHANGED <<prevRequestUUID, actionToResponseMap, activeMessage, secureStorage, now>>

IsAppVerified(c) == CanStart(c) /\ IsAppVerifiedCall(c, Snapshot)

IV_isClientAppVerified(c) ==
    /\ At(c, "isAppVerified", "isClientAppVerified")
    /\ calls' = [calls EXCEPT ![c] = Returns(calls[c], "value")]
    /\ UNCHANGED <<prevRequestUUID, actionToResponseMap, activeMessage, secureStorage, now>>

----------------------------------------------------------------------------
(* approveHandshake and rejectHandshake *)

ApproveHandshakeCall(c, action, appId, pre) ==
    /\ LET call == [NewCall("approveHandshake", pre) EXCEPT !.action = action, !.appId = appId]
       IN IF NoMessageFound(activeMessage)
          THEN calls' = [calls EXCEPT ![c] = Returns(call, "throw")]
          ELSE calls' = [calls EXCEPT ![c] = [call EXCEPT !.pc = "createSession"]]
    /\ UNCHANGED <<prevRequestUUID, actionToResponseMap, activeMessage, secureStorage, now>>

ApproveHandshake(c, action, appId) == CanStart(c) /\ ApproveHandshakeCall(c, action, appId, Snapshot)

AH_createSession(c) ==
    /\ At(c, "approveHandshake", "createSession")
    /\ LET call == calls[c]
       IN calls' = [calls EXCEPT ![c] =
                       [call EXCEPT !.session =
                                       createSession(call.appId, call.action, call.message, now),
                                    !.pc = "getSessions"]]
    /\ UNCHANGED <<prevRequestUUID, actionToResponseMap, activeMessage, secureStorage, now>>

AH_getSessions(c) ==
    /\ At(c, "approveHandshake", "getSessions")
    /\ LET call == calls[c]
           existingSession == ExistingSession(secureStorage, call.appId)
       IN calls' = [calls EXCEPT ![c] =
                       [call EXCEPT !.existing = existingSession,
                                    !.pc = IF existingSession # NoSession
                                           THEN "deleteSessions" ELSE "addSession"]]
    /\ UNCHANGED <<prevRequestUUID, actionToResponseMap, activeMessage, secureStorage, now>>

AH_deleteSessions(c) ==
    /\ At(c, "approveHandshake", "deleteSessions")
    /\ secureStorage' = deleteSessions(secureStorage, {calls[c].existing})
    /\ calls' = [calls EXCEPT ![c] =
                    [calls[c] EXCEPT !.deleted = Append(@, calls[c].existing),
                                     !.pc = "addSession"]]
    /\ UNCHANGED <<prevRequestUUID, actionToResponseMap, activeMessage, now>>

AH_addSession(c) ==
    /\ At(c, "approveHandshake", "addSession")
    /\ secureStorage' = addSession(secureStorage, calls[c].session)
    /\ LET call == [calls[c] EXCEPT !.added = Append(@, calls[c].session)]
       IN IF shouldRespondToClient(actionToResponseMap, call.message)
          THEN calls' = [calls EXCEPT ![c] = [call EXCEPT !.pc = "sendResponse"]]
          ELSE calls' = [calls EXCEPT ![c] = Returns(call, "void")]
    /\ UNCHANGED <<prevRequestUUID, actionToResponseMap, activeMessage, now>>

AH_sendResponse(c) ==
    /\ At(c, "approveHandshake", "sendResponse")
    /\ LET call == calls[c]
       IN calls' = [calls EXCEPT ![c] =
                       Returns([call EXCEPT
                                   !.sent = Append(@, ResponseOf(actionToResponseMap, call.message)),
                                   !.updates = @ + 1, !.discarded = activeMessage],
                               "void")]
    /\ updateActiveMessage(NoMessage)
    /\ UNCHANGED <<prevRequestUUID, secureStorage, now>>

RejectHandshakeCall(c, pre) ==
    /\ LET call == NewCall("rejectHandshake", pre)
       IN IF NoMessageFound(activeMessage)
          THEN calls' = [calls EXCEPT ![c] = Returns(call, "throw")]
          ELSE calls' = [calls EXCEPT ![c] = [call EXCEPT !.pc = "sendError"]]
    /\ UNCHANGED <<prevRequestUUID, actionToResponseMap, activeMessage, secureStorage, now>>

RejectHandshake(c) == CanStart(c) /\ RejectHandshakeCall(c, Snapshot)

\* faulty variant: the error is delivered and the message stays active
RH_sendErrorKeepsMessage(c) ==
    /\ At(c, "rejectHandshake", "sendError")
    /\ LET call == calls[c]
       IN calls' = [calls EXCEPT ![c] =
                       Returns([call EXCEPT
                                   !.sent = Append(@, ErrorOf(call.message.callbackUrl,
                                                              call.message.uuid))],
                               "void")]
    /\ UNCHANGED <<prevRequestUUID, actionToResponseMap, activeMessage, secureStorage, now>>

RH_sendError(c) ==
    /\ At(c, "rejectHandshake", "sendError")
    /\ LET call == calls[c]
       IN calls' = [calls EXCEPT ![c] =
                       Returns([call EXCEPT
                                   !.sent = Append(@, ErrorOf(call.message.callbackUrl,
                                                              call.message.uuid)),
                                   !.updates = @ + 1, !.discarded = activeMessage],
                               "void")]
    /\ updateActiveMessage(NoMessage)
    /\ UNCHANGED <<prevRequestUUID, secureStorage, now>>

----------------------------------------------------------------------------
(* approveAction and rejectAction *)

ApproveActionCall(c, action, pre) ==
    /\ LET call == [NewCall("approveAction", pre) EXCEPT !.action = action, !.outcome = "result"]
           map == MapSet(actionToResponseMap, action.id, "result")
       IN IF NoMessageFound(activeMessage)
          THEN /\ calls' = [calls EXCEPT ![c] = Returns(call, "throw")]
               /\ UNCHANGED actionToResponseMap
          ELSE /\ actionToResponseMap' = map
               /\ IF ApproveResponds(map, activeMessage)
                  THEN calls' = [calls EXCEPT ![c] = [call EXCEPT !.pc = "sendResponse"]]
                  ELSE calls' = [calls EXCEPT ![c] = Returns(call, "void")]
    /\ UNCHANGED <<prevRequestUUID, activeMessage, secureStorage, now>>

ApproveAction(c, action) == CanStart(c) /\ ApproveActionCall(c, action, Snapshot)

AA_sendResponse(c) ==
    /\ At(c, "approveAction", "sendResponse")
    /\ LET call == calls[c]
       IN calls' = [calls EXCEPT ![c] =
                       Returns([call EXCEPT
                                   !.sent = Append(@, ResponseOf(actionToResponseMap, call.message)),
                                   !.updates = @ + 1, !.discarded = activeMessage],
                               "void")]
    /\ updateActiveMessage(NoMessage)
    /\ UNCHANGED <<prevRequestUUID, secureStorage, now>>

RejectActionCall(c, action, pre) ==
    /\ LET call == [NewCall("rejectAction", pre) EXCEPT !.action = action, !.outcome = "error"]
           map == MapSet(actionToResponseMap, action.id, "error")
       IN IF NoMessageFound(activeMessage)
          THEN /\ calls' = [calls EXCEPT ![c] = Returns(call, "throw")]
               /\ UNCHANGED actionToResponseMap
          ELSE /\ actionToResponseMap' = map
               /\ IF RejectResponds(action, map, activeMessage)
                  THEN calls' = [calls EXCEPT ![c] = [call EXCEPT !.pc = "sendResponse"]]
                  ELSE calls' = [calls EXCEPT ![c] = Returns(call, "void")]
    /\ UNCHANGED <<prevRequestUUID, activeMessage, secureStorage, now>>

RejectAction(c, action) == CanStart(c) /\ RejectActionCall(c, action, Snapshot)

RA_sendResponse(c) ==
    /\ At(c, "rejectAction", "sendResponse")
    /\ LET call == calls[c]
           sent == Append(call.sent, ResponseOf(actionToResponseMap, call.message))
       IN IF call.action.optional
          THEN /\ calls' = [calls EXCEPT ![c] =
                               Returns([call EXCEPT !.sent = sent, !.updates = @ + 1,
                                                    !.discarded = activeMessage],
                                       "void")]
               /\ updateActiveMessage(NoMessage)
          ELSE /\ calls' = [calls EXCEPT ![c] = Returns([call EXCEPT !.sent = sent], "void")]
               /\ UNCHANGED <<actionToResponseMap, activeMessage>>
    /\ UNCHANGED <<prevRequestUUID, secureStorage, now>>

----------------------------------------------------------------------------
(* The caller and the clock *)

\* the promise of a call settles: the caller has its result, and the calls
\* still in flight keep their order
Return(c) ==
    /\ calls[c].pc = "done"
    /\ calls' = [d \in CallIds |->
                    IF d < c THEN calls[d]
                    ELSE IF d + 1 \in CallIds THEN calls[d + 1]
                    ELSE IdleCall]
    /\ UNCHANGED <<prevRequestUUID, actionToResponseMap, activeMessage, secureStorage, now>>

\* a day passes; a day is long against a call, so it ends between two calls
Tick ==
    /\ now < MaxClock
    /\ \A c \in CallIds : calls[c].pc = "idle"
    /\ now' = now + 1
    /\ UNCHANGED <<prevRequestUUID, actionToResponseMap, activeMessage, secureStorage, calls>>

\* the actions a caller hands to approve and reject: those of the message it
\* is shown, any action when there is none
ActionInputs ==
    IF activeMessage = NoMessage THEN AllActions ELSE ActionsOf(activeMessage)

HandshakeInputs ==
    LET shown == {a \in ActionsOf(activeMessage) : isHandshakeAction(a)}
    IN IF shown = {} THEN {HandshakeActionOf(d) : d \in Dapps} ELSE shown

Next ==
    \/ \E c \in CallIds, url \in Urls : HandleRequestUrl(c, url)
    \/ \E c \in CallIds : HRU_decodeRequest(c)
    \/ \E c \in CallIds : HRU_getSession(c)
    \/ \E c \in CallIds : HRU_sendErrorNotFound(c)
    \/ \E c \in CallIds : HRU_deleteSessions(c)
    \/ \E c \in CallIds : HRU_sendErrorExpired(c)
    \/ \E c \in CallIds : HRU_decryptRequest(c)
    \/ \E c \in CallIds : FetchAppMetadata(c)
    \/ \E c \in CallIds : FM_fetchClientAppMetadata(c)
    \/ \E c \in CallIds : IsAppVerified(c)
    \/ \E c \in CallIds : IV_isClientAppVerified(c)
    \/ \E c \in CallIds, action \in HandshakeInputs, appId \in Dapps :
            ApproveHandshake(c, action, appId)
    \/ \E c \in CallIds : AH_createSession(c)
    \/ \E c \in CallIds : AH_getSessions(c)
    \/ \E c \in CallIds : AH_deleteSessions(c)
    \/ \E c \in CallIds : AH_addSession(c)
    \/ \E c \in CallIds : AH_sendResponse(c)
    \/ \E c \in CallIds : RejectHandshake(c)
    \/ \E c \in CallIds : RH_sendError(c)
    \/ \E c \in CallIds, action \in ActionInputs : ApproveAction(c, action)
    \/ \E c \in CallIds : AA_sendResponse(c)
    \/ \E c \in CallIds, action \in ActionInputs : RejectAction(c, action)
    \/ \E c \in CallIds : RA_sendResponse(c)
    \/ \E c \in CallIds : Return(c)
    \/ Tick

Spec == Init /\ [][Next]_vars

----------------------------------------------------------------------------
(* Delivery failures: sendResponse rejects, and the operation that awaits  *)
(* it throws at that await                                                 *)

\* faulty variant: the failed delivery takes the new session out of the store
\* and the message off the screen
AH_sendResponseFailsRollsBack(c) ==
    /\ At(c, "approveHandshake", "sendResponse")
    /\ calls' = [calls EXCEPT ![c] = Returns(calls[c], "throw")]
    /\ secureStorage' = deleteSessions(secureStorage, {calls[c].session})
    /\ updateActiveMessage(NoMessage)
    /\ UNCHANGED <<prevRequestUUID, now>>

AH_sendResponseFails(c) ==
    /\ At(c, "approveHandshake", "sendResponse")
    /\ calls' = [calls EXCEPT ![c] = Returns(calls[c], "throw")]
    /\ UNCHANGED <<prevRequestUUID, actionToResponseMap, activeMessage, secureStorage, now>>

AA_sendResponseFails(c) ==
    /\ At(c, "approveAction", "sendResponse")
    /\ calls' = [calls EXCEPT ![c] = Returns(calls[c], "throw")]
    /\ UNCHANGED <<prevRequestUUID, actionToResponseMap, activeMessage, secureStorage, now>>

RA_sendResponseFails(c) ==
    /\ At(c, "rejectAction", "sendResponse")
    /\ calls' = [calls EXCEPT ![c] = Returns(calls[c], "throw")]
    /\ UNCHANGED <<prevRequestUUID, actionToResponseMap, activeMessage, secureStorage, now>>

NextFault ==
    \/ Next
    \/ \E c \in CallIds : AH_sendResponseFails(c)
    \/ \E c \in CallIds : AA_sendResponseFails(c)
    \/ \E c \in CallIds : RA_sendResponseFails(c)

\* one caller at a time, deliveries may fail
SpecFault == Init /\ [][NextFault]_vars

----------------------------------------------------------------------------
(* Callers that do not wait for each other: the operations interleave at   *)
(* their awaits                                                            *)

\* a call that has run to completion settles its promise before any other
\* call is resumed or started
Settled == \A c \in CallIds : calls[c].pc # "done"

\* the requests submitted while other calls are in flight: a handshake or a
\* request of two actions, under either request id
ConcUrls == HandshakeUrls \cup {url \in RequestUrls : url.n = 2}

NextConc ==
    \/ \E c \in CallIds, url \in ConcUrls : Settled /\ CanStartAnytime(c) /\ HandleRequestUrlCall(c, url, NoPre)
    \/ \E c \in CallIds : Settled /\ HRU_decodeRequest(c)
    \/ \E c \in CallIds : Settled /\ HRU_getSession(c)
    \/ \E c \in CallIds : Settled /\ HRU_sendErrorNotFound(c)
    \/ \E c \in CallIds : Settled /\ HRU_decryptRequest(c)
    \/ \E c \in CallIds, action \in HandshakeInputs, appId \in Dapps :
            Settled /\ CanStartAnytime(c) /\ ApproveHandshakeCall(c, action, appId, NoPre)
    \/ \E c \in CallIds : Settled /\ AH_createSession(c)
    \/ \E c \in CallIds : Settled /\ AH_getSessions(c)
    \/ \E c \in CallIds : Settled /\ AH_deleteSessions(c)
    \/ \E c \in CallIds : Settled /\ AH_addSession(c)
    \/ \E c \in CallIds : Settled /\ AH_sendResponse(c)
    \/ \E c \in CallIds : Settled /\ CanStartAnytime(c) /\ RejectHandshakeCall(c, NoPre)
    \/ \E c \in CallIds : Settled /\ RH_sendError(c)
    \/ \E c \in CallIds, action \in ActionInputs : Settled /\ CanStartAnytime(c) /\ ApproveActionCall(c, action, NoPre)
    \/ \E c \in CallIds : Settled /\ AA_sendResponse(c)
    \/ \E c \in CallIds, action \in ActionInputs : Settled /\ CanStartAnytime(c) /\ RejectActionCall(c, action, NoPre)
    \/ \E c \in CallIds : Settled /\ RA_sendResponse(c)
    \/ \E c \in CallIds : Return(c)

SpecConc == Init /\ [][NextConc]_vars

----------------------------------------------------------------------------
(* Properties.  A call whose pc is "done" has run to completion and holds   *)
(* the state it started from (pre), what it delivered (sent), the events it *)
(* emitted, the sessions it deleted and added, its decrypt attempts and its *)
(* calls of updateActiveMessage.                                            *)

Done(c, op) == calls[c].op = op /\ calls[c].pc = "done"

\* the call left the provider's state as it found it
Untouched(call) ==
    /\ activeMessage = call.pre.message
    /\ actionToResponseMap = call.pre.map
    /\ secureStorage = call.pre.storage
    /\ prevRequestUUID = call.pre.prev

\* the call reached no collaborator
NoEffect(call) ==
    /\ call.sent = << >>
    /\ call.events = << >>
    /\ call.deleted = << >>
    /\ call.added = << >>
    /\ call.decrypts = 0
    /\ call.updates = 0

IsHandshakeMessage(message) ==
    Len(message.actions) = 1 /\ isHandshakeAction(message.actions[1])

\* the response map once the call has recorded its outcome
Recorded(call) == MapSet(call.pre.map, call.action.id, call.outcome)

Covers(map, message) == \A a \in ActionsOf(message) : a.id \in DOMAIN map

\* a request url whose id is not the dedupe marker
FreshRequest(call) ==
    /\ call.url \in RequestUrls
    /\ call.pre.prev # call.url.uuid

SessionAtStart(call) == getSession(call.pre.storage, decodeRequest(call.url))

\* C1: for a message with actions [A mandatory, B optional], once rejectAction(A)
\* has completed with B unresolved, no message is active and the response map is
\* empty; a later approveAction(B) or rejectAction(B) throws and dispatches nothing.
C1_MandatoryRejectionClears ==
    \A c \in CallIds :
        LET call == calls[c] IN
        /\ ( /\ Done(c, "rejectAction")
             /\ call.message.actions = ActionList(2)
             /\ call.action = RequestActionOf(1)
             /\ 2 \notin DOMAIN call.pre.map )
           => /\ activeMessage = NoMessage
              /\ actionToResponseMap = EmptyMap
        /\ ( /\ Done(c, "approveAction") \/ Done(c, "rejectAction")
             /\ call.action = RequestActionOf(2)
             /\ call.pre.message.actions = ActionList(2)
             /\ 1 \in DOMAIN call.pre.map
             /\ call.pre.map[1] = "error"
             /\ 2 \notin DOMAIN call.pre.map )
           => /\ call.ret = "throw"
              /\ call.sent = << >>

\* C2: approveHandshake on a handshake message records a success outcome for the
\* handshake action, dispatches the response in that call and leaves no message
\* active.
C2_ApproveHandshakeResponds ==
    \A c \in CallIds :
        LET call == calls[c] IN
        ( /\ Done(c, "approveHandshake")
          /\ IsHandshakeMessage(call.pre.message) )
        => /\ Len(call.sent) = 1
           /\ call.sent[1].type = "response"
           /\ call.sent[1].to = call.pre.message.callbackUrl
           /\ call.sent[1].body = (0 :> "result")
           /\ activeMessage = NoMessage

\* C3: every handleRequestUrl of a decodable request leaves the dedupe marker at
\* that request's id, whichever path it took, and a handleRequestUrl that starts
\* with the marker at its request's id returns false with no side effect at all.
C3_DuplicateIsIgnored ==
    \A c \in CallIds :
        LET call == calls[c] IN
        ( /\ Done(c, "handleRequestUrl")
          /\ decodeRequest(call.url) # NoDecoded )
        => /\ prevRequestUUID = call.url.uuid
           /\ call.pre.prev = call.url.uuid
              => /\ call.ret = "false"
                 /\ NoEffect(call)
                 /\ Untouched(call)

C3_Witness ==
    \E c \in CallIds :
        /\ Done(c, "handleRequestUrl")
        /\ calls[c].url \in RequestUrls
        /\ calls[c].pre.prev = calls[c].url.uuid
        /\ calls[c].pre.message.uuid = calls[c].url.uuid
        /\ calls[c].pre.map # EmptyMap

\* C4: approveAction, and rejectAction of an optional action, dispatch a response
\* only if every action of the message has an outcome once theirs is recorded;
\* while an action lacks an outcome they dispatch nothing and the message stays
\* active.
C4_RespondsOnlyWhenComplete ==
    \A c \in CallIds :
        LET call == calls[c] IN
        ( /\ Done(c, "approveAction") \/ (Done(c, "rejectAction") /\ call.action.optional)
          /\ call.pre.message # NoMessage )
        => /\ call.sent # << >> => Covers(Recorded(call), call.pre.message)
           /\ ~Covers(Recorded(call), call.pre.message)
              => /\ call.sent = << >>
                 /\ activeMessage = call.pre.message
                 /\ actionToResponseMap = Recorded(call)

C4_Witness ==
    \E c \in CallIds :
        /\ Done(c, "approveAction")
        /\ calls[c].pre.message.actions = ActionList(3)
        /\ DOMAIN calls[c].pre.map = {2}
        /\ calls[c].action = RequestActionOf(1)
        /\ calls[c].sent = << >>
        /\ activeMessage = calls[c].pre.message

\* C5: rejectAction of a mandatory action dispatches one response in the same
\* call, however many actions are unresolved, and the response holds the response
\* map of that moment: the new error and the outcomes recorded before, nothing
\* for an unresolved action.
C5_MandatoryRejectionResponds ==
    \A c \in CallIds :
        LET call == calls[c] IN
        ( /\ Done(c, "rejectAction")
          /\ ~call.action.optional
          /\ call.pre.message # NoMessage )
        => /\ Len(call.sent) = 1
           /\ call.sent[1].type = "response"
           /\ call.sent[1].to = call.pre.message.callbackUrl
           /\ call.sent[1].uuid = call.pre.message.uuid
           /\ call.sent[1].body = Recorded(call)
           /\ call.sent[1].body[call.action.id] = "error"
           /\ \A a \in ActionsOf(call.pre.message) :
                 (a.id \notin DOMAIN call.pre.map /\ a.id # call.action.id)
                 => a.id \notin DOMAIN call.sent[1].body

C5_Witness ==
    \E c \in CallIds :
        /\ Done(c, "rejectAction")
        /\ calls[c].pre.message.actions = ActionList(3)
        /\ calls[c].action = RequestActionOf(3)
        /\ calls[c].pre.map = (2 :> "result")
        /\ Len(calls[c].sent) = 1
        /\ DOMAIN calls[c].sent[1].body = {2, 3}

\* C6: with one operation at a time the store never holds two sessions of one
\* dappId, and when approveHandshake for app X has completed the store holds one
\* session of X: the one this approval built.
C6_OneSessionPerApp ==
    /\ \A d \in Dapps : Cardinality(SessionsOf(secureStorage, d)) <= 1
    /\ \A c \in CallIds :
          LET call == calls[c] IN
          ( /\ Done(c, "approveHandshake")
            /\ call.pre.message # NoMessage )
          => /\ Cardinality(SessionsOf(secureStorage, call.appId)) = 1
             /\ \A i \in SessionsOf(secureStorage, call.appId) :
                   /\ secureStorage[i] = call.session
                   /\ secureStorage[i].handshake = call.pre.message.uuid
                   /\ secureStorage[i].createdAt >= call.pre.now

C6_Witness ==
    \E c \in CallIds :
        /\ Done(c, "approveHandshake")
        /\ IsHandshakeMessage(calls[c].pre.message)
        /\ Len(calls[c].pre.storage) = 1
        /\ calls[c].pre.storage[1].dappId = calls[c].appId
        /\ calls[c].pre.storage[1].handshake # calls[c].pre.message.uuid
        /\ secureStorage = <<calls[c].session>>

\* C7: handleRequestUrl of a fresh request whose session exists and is expired
\* deletes that session once, delivers one error, never decrypts, installs no
\* message and returns false.
C7_ExpiredSession ==
    \A c \in CallIds :
        LET call == calls[c]
            session == SessionAtStart(call)
        IN ( /\ Done(c, "handleRequestUrl")
             /\ FreshRequest(call)
             /\ session # NoSession
             /\ ~isSessionValid(session, sessionExpiryDays, call.pre.now) )
           => /\ call.ret = "false"
              /\ call.deleted = <<session>>
              /\ secureStorage = deleteSessions(call.pre.storage, {session})
              /\ call.sent = <<ErrorOf(call.url.dapp, call.url.uuid)>>
              /\ call.events = <<"session_expired">>
              /\ call.decrypts = 0
              /\ call.updates = 0
              /\ call.added = << >>
              /\ activeMessage = call.pre.message
              /\ actionToResponseMap = call.pre.map

C7_Witness ==
    \E c \in CallIds :
        /\ Done(c, "handleRequestUrl")
        /\ FreshRequest(calls[c])
        /\ SessionAtStart(calls[c]) # NoSession
        /\ ~isSessionValid(SessionAtStart(calls[c]), sessionExpiryDays, calls[c].pre.now)
        /\ calls[c].pre.message # NoMessage
        /\ secureStorage = << >>

\* C8: handleRequestUrl of a fresh request with no session in the store emits one
\* event, delivers one error, never decrypts, leaves the store, the active message
\* and the response map as they were and returns false.
C8_SessionNotFound ==
    \A c \in CallIds :
        LET call == calls[c] IN
        ( /\ Done(c, "handleRequestUrl")
          /\ FreshRequest(call)
          /\ SessionAtStart(call) = NoSession )
        => /\ call.ret = "false"
           /\ call.events = <<"session_not_found">>
           /\ call.sent = <<ErrorOf(call.url.dapp, call.url.uuid)>>
           /\ call.decrypts = 0
           /\ call.deleted = << >>
           /\ call.added = << >>
           /\ call.updates = 0
           /\ secureStorage = call.pre.storage
           /\ activeMessage = call.pre.message
           /\ actionToResponseMap = call.pre.map

C8_Witness ==
    \E c \in CallIds :
        /\ Done(c, "handleRequestUrl")
        /\ FreshRequest(calls[c])
        /\ SessionAtStart(calls[c]) = NoSession
        /\ calls[c].pre.message # NoMessage
        /\ calls[c].pre.map # EmptyMap
        /\ Len(calls[c].sent) = 1

\* C9: with no active message approveHandshake, rejectHandshake, approveAction and
\* rejectAction throw and change nothing; fetchClientAppMetadata and
\* isClientAppVerified throw when the active message is absent or has no handshake
\* action.
C9_InvalidState ==
    \A c \in CallIds :
        LET call == calls[c] IN
        /\ ( /\ call.pc = "done"
             /\ call.op \in {"approveHandshake", "rejectHandshake",
                             "approveAction", "rejectAction"}
             /\ call.pre.message = NoMessage )
           => /\ call.ret = "throw"
              /\ NoEffect(call)
              /\ Untouched(call)
        /\ ( /\ call.pc = "done"
             /\ call.op \in {"fetchAppMetadata", "isAppVerified"}
             /\ \A a \in ActionsOf(call.pre.message) : ~isHandshakeAction(a) )
           => /\ call.ret = "throw"
              /\ NoEffect(call)
              /\ Untouched(call)

C9_Witness ==
    \E c \in CallIds :
        /\ Done(c, "rejectAction")
        /\ calls[c].pre.message = NoMessage
        /\ calls[c].pre.prev # NoUUID
        /\ calls[c].ret = "throw"

\* the message a handleRequestUrl installs when it installs one
Installed(call) ==
    IF call.url.content = "handshake"
    THEN mapHandshakeToRequest(decodeRequest(call.url))
    ELSE mapDecryptedContentToRequest(decryptRequest(call.url), decodeRequest(call.url))

\* C10: handleRequestUrl returns true exactly when it has called
\* updateActiveMessage: the active message is then the new message and the
\* response map is empty; when it returns false the active message and the
\* response map are those it started with.
C10_ReturnTellsInstall ==
    \A c \in CallIds :
        LET call == calls[c] IN
        Done(c, "handleRequestUrl")
        => /\ call.ret = "true" <=> call.updates > 0
           /\ call.ret = "true"
              => /\ call.updates = 1
                 /\ activeMessage = Installed(call)
                 /\ actionToResponseMap = EmptyMap
           /\ call.ret = "false"
              => /\ activeMessage = call.pre.message
                 /\ actionToResponseMap = call.pre.map

C10_Witness ==
    \E c \in CallIds :
        /\ Done(c, "handleRequestUrl")
        /\ calls[c].ret = "true"
        /\ calls[c].pre.map # EmptyMap
        /\ calls[c].pre.message # activeMessage
        /\ actionToResponseMap = EmptyMap

\* the ids of the actions of a message; none when there is no message
ActionIds(message) == {a.id : a \in ActionsOf(message)}

C12_RejectHandshake ==
    \A c \in CallIds :
        LET call == calls[c] IN
        ( /\ Done(c, "rejectHandshake")
          /\ call.pre.message # NoMessage )
        => /\ call.ret = "void"
           /\ call.sent = <<ErrorOf(call.pre.message.callbackUrl, call.pre.message.uuid)>>
           /\ activeMessage = NoMessage
           /\ actionToResponseMap = EmptyMap
           /\ secureStorage = call.pre.storage
           /\ call.deleted = << >>
           /\ call.added = << >>

\* a handshake is rejected while the store holds a session
C12_Witness ==
    \E c \in CallIds :
        /\ Done(c, "rejectHandshake")
        /\ IsHandshakeMessage(calls[c].pre.message)
        /\ calls[c].pre.storage # << >>
        /\ Len(calls[c].sent) = 1

\* C13: for an active request message, once the caller has recorded a decision
\* for every action (the call that records the last one has completed), a
\* response has been dispatched and no message is active.  Nothing but a caller's
\* operation changes the state, so what holds when that call completes is what
\* holds from then on.
C13_AllDecidedResolves ==
    \A c \in CallIds :
        LET call == calls[c] IN
        ( /\ Done(c, "approveAction") \/ Done(c, "rejectAction")
          /\ call.pre.message # NoMessage
          /\ ~IsHandshakeMessage(call.pre.message)
          /\ call.action \in ActionsOf(call.pre.message)
          /\ Covers(Recorded(call), call.pre.message) )
        => /\ call.sent # << >>
           /\ activeMessage = NoMessage

\* C14: every approveHandshake, rejectHandshake, approveAction or rejectAction
\* that dispatches a response or an error clears the active message in the same
\* call, so that the message it answered is no longer there to be answered again.
C14_DispatchThenClear ==
    \A c \in CallIds :
        LET call == calls[c] IN
        ( /\ \/ Done(c, "approveHandshake")
             \/ Done(c, "rejectHandshake")
             \/ Done(c, "approveAction")
             \/ Done(c, "rejectAction")
          /\ call.sent # << >> )
        => /\ Len(call.sent) = 1
           /\ call.updates = 1
           /\ activeMessage = NoMessage

\* C15: the store holds at most one session of a dappId in every state that
\* callers who do not wait for each other can reach, whatever the interleaving of
\* the approveHandshake calls at their awaits.
C15_OneSessionWhenInterleaved ==
    \A d \in Dapps :
        \A i, j \in SessionsOf(secureStorage, d) : i = j

\* C16: an approve or reject operation that clears the active message clears the
\* message it was invoked on: a message that handleRequestUrl installed while the
\* operation was suspended in its delivery is not the one it discards.
C16_ClearsOwnMessage ==
    \A c \in CallIds :
        LET call == calls[c] IN
        ( /\ \/ Done(c, "approveHandshake")
             \/ Done(c, "rejectHandshake")
             \/ Done(c, "approveAction")
             \/ Done(c, "rejectAction")
          /\ call.updates > 0 )
        => call.discarded \in {call.message, NoMessage}

\* C17: of the handleRequestUrl calls in flight at once with the same request
\* id, at most one has passed the dedupe check unless a call with another id
\* passed it in between, and a call that did not pass returns false having
\* reached no collaborator and changed nothing.
C17_OnePassesDedupe ==
    /\ \A c, d \in CallIds :
          ( /\ c # d
            /\ calls[c].op = "handleRequestUrl"
            /\ calls[d].op = "handleRequestUrl"
            /\ calls[c].url.uuid = calls[d].url.uuid
            /\ calls[c].fresh
            /\ calls[d].fresh )
          => calls[c].overwritten \/ calls[d].overwritten
    /\ \A c \in CallIds :
          ( /\ calls[c].op = "handleRequestUrl"
            /\ calls[c].pc # "decodeRequest"
            /\ ~calls[c].fresh )
          => /\ calls[c].pc = "done"
             /\ calls[c].ret = "false"
             /\ NoEffect(calls[c])

\* two calls with one request id overlap: the first passed the check and is
\* suspended in its session resolution, the second has returned false
C17_Witness ==
    \E c, d \in CallIds :
        /\ c # d
        /\ calls[c].op = "handleRequestUrl"
        /\ calls[c].url \in RequestUrls
        /\ calls[c].fresh
        /\ ~calls[c].overwritten
        /\ calls[c].pc \notin {"decodeRequest", "done"}
        /\ Done(d, "handleRequestUrl")
        /\ calls[d].url.uuid = calls[c].url.uuid
        /\ ~calls[d].fresh
        /\ calls[d].ret = "false"

\* C18: the dedupe marker is the id of the last decodable request that was not a
\* duplicate, installed or not: a handleRequestUrl whose url decodes to nothing
\* leaves it unchanged, one that decodes leaves it at the request's id on every
\* path, it is already at that id while the session is being resolved, no other
\* operation changes it, and a request that failed for its session and is
\* submitted again unchanged returns false with no error delivered.
C18_MarkerIsLastDecoded ==
    \A c \in CallIds :
        LET call == calls[c] IN
        /\ ( Done(c, "handleRequestUrl") /\ decodeRequest(call.url) = NoDecoded )
           => /\ prevRequestUUID = call.pre.prev
              /\ call.ret = "false"
        /\ ( Done(c, "handleRequestUrl") /\ decodeRequest(call.url) # NoDecoded )
           => prevRequestUUID = call.url.uuid
        /\ ( /\ call.op = "handleRequestUrl"
             /\ call.pc \in {"getSession", "sendErrorNotFound", "deleteSessions",
                             "sendErrorExpired", "decryptRequest"} )
           => /\ prevRequestUUID = call.url.uuid
              /\ call.sent = << >>
              /\ call.decrypts = 0
        /\ ( call.pc = "done" /\ call.op # "handleRequestUrl" )
           => prevRequestUUID = call.pre.prev
        /\ ( /\ Done(c, "handleRequestUrl")
             /\ call.url \in RequestUrls
             /\ call.pre.prev = call.url.uuid
             /\ call.pre.message.uuid # call.url.uuid )
           => /\ call.ret = "false"
              /\ call.sent = << >>
              /\ call.events = << >>

\* a request that was answered 'session not found' is submitted again while the
\* store still has no session for it
C18_Witness ==
    \E c \in CallIds :
        /\ Done(c, "handleRequestUrl")
        /\ calls[c].url \in RequestUrls
        /\ calls[c].pre.prev = calls[c].url.uuid
        /\ calls[c].pre.message = NoMessage
        /\ SessionAtStart(calls[c]) = NoSession
        /\ calls[c].ret = "false"
        /\ calls[c].sent = << >>

\* C19: only the id of the previous request is remembered: a request whose id is
\* not the marker is processed as fresh even if that id was submitted before the
\* previous one (A, B, A); a handshake then replaces the active message and
\* clears the response map, a request goes through session resolution.
C19_OnlyPreviousIdRemembered ==
    \A c \in CallIds :
        LET call == calls[c] IN
        /\ ( /\ Done(c, "handleRequestUrl")
             /\ call.url \in HandshakeUrls
             /\ call.pre.prev # call.url.uuid )
           => /\ call.ret = "true"
              /\ activeMessage = Installed(call)
              /\ actionToResponseMap = EmptyMap
              /\ prevRequestUUID = call.url.uuid
        /\ ( /\ Done(c, "handleRequestUrl")
             /\ FreshRequest(call) )
           => ~NoEffect(call)

\* the third submission of A, B, A: the handshake with id A was approved (its
\* session is stored), a request with id B is active with an outcome on record,
\* and the handshake with id A is submitted again
C19_Witness ==
    \E c \in CallIds :
        /\ Done(c, "handleRequestUrl")
        /\ calls[c].url \in HandshakeUrls
        /\ \E i \in 1..Len(calls[c].pre.storage) :
                calls[c].pre.storage[i].handshake = calls[c].url.uuid
        /\ calls[c].pre.prev # calls[c].url.uuid
        /\ calls[c].pre.prev = calls[c].pre.message.uuid
        /\ ~IsHandshakeMessage(calls[c].pre.message)
        /\ calls[c].pre.map # EmptyMap
        /\ calls[c].ret = "true"

\* C20: when the delivery of the response fails, the operation throws and rolls
\* nothing back: approveHandshake has added its session before the delivery and
\* the session is still in the store, approveAction and rejectAction leave their
\* outcome in the response map, and in both cases the message is still active
\* and nothing was delivered.
C20_NoRollback ==
    \A c \in CallIds :
        LET call == calls[c] IN
        /\ ( /\ Done(c, "approveHandshake")
             /\ call.ret = "throw"
             /\ call.pre.message # NoMessage )
           => /\ call.added = <<call.session>>
              /\ \E i \in 1..Len(secureStorage) : secureStorage[i] = call.session
              /\ activeMessage = call.pre.message
              /\ actionToResponseMap = call.pre.map
              /\ call.sent = << >>
              /\ call.updates = 0
        /\ ( /\ Done(c, "approveAction") \/ Done(c, "rejectAction")
             /\ call.ret = "throw"
             /\ call.pre.message # NoMessage )
           => /\ actionToResponseMap = Recorded(call)
              /\ activeMessage = call.pre.message
              /\ secureStorage = call.pre.storage
              /\ call.sent = << >>
              /\ call.updates = 0

\* the delivery of approveHandshake has failed after the session of another
\* handshake was replaced by the new one
C20_Witness ==
    \E c \in CallIds :
        /\ Done(c, "approveHandshake")
        /\ calls[c].ret = "throw"
        /\ calls[c].pre.message # NoMessage
        /\ calls[c].pre.storage # << >>
        /\ calls[c].session \notin {calls[c].pre.storage[i] : i \in 1..Len(calls[c].pre.storage)}
        /\ secureStorage = <<calls[c].session>>

====
